---- MODULE Spec2Model ----
(***************************************************************************)
(* Model of the substreams chain adapter of graph-node:                    *)
(*   chain/substreams/src/mapper.rs   Mapper::to_block_stream_event        *)
(*   chain/substreams/src/trigger.rs  TriggerFilter, write_poi_event,      *)
(*                                    TriggerProcessor::process_trigger,   *)
(*                                    decode_entity_change                 *)
(* Text is a sequence of one-character strings, so that slicing and        *)
(* casing are computed; a u64 is four 16-bit limbs, most significant first.*)
(***************************************************************************)
EXTENDS Integers, Sequences, FiniteSets, TLC

VARIABLES
    pc,        \* driver position: "idle", "mapped", "processed", "aborted"
    payload,   \* the BlockScopedData last handed to the mapper
    event,     \* what to_block_stream_event returned for it
    call,      \* the process_trigger call made for it: its inputs and what it did
    filter,    \* the TriggerFilter
    extended   \* the calls made on the filter so far, oldest first

vars == <<pc, payload, event, call, filter, extended>>

\* ------------------------------------------------------------------ bounds

MaxChanges == 3
MaxOutputs == 2
MaxExtends == 3

\* ------------------------------------------------------------------ helpers

None == [some |-> FALSE]
Some(v) == [some |-> TRUE, v |-> v]

SeqsUpTo(S, n) == UNION {[1..k -> S] : k \in 0..n}

Range(s) == {s[i] : i \in 1..Len(s)}


\* ------------------------------------------------------------------ mapper.rs

\* ForkStep::from_i32: the wire integers of the protobuf enum.
ForkStepFromI32(i) ==
    CASE i = 0 -> Some("StepUnknown")
      [] i = 1 -> Some("StepNew")
      [] i = 2 -> Some("StepUndo")
      [] i = 4 -> Some("StepIrreversible")
      [] OTHER -> None

HexDigits == <<"0", "1", "2", "3", "4", "5", "6", "7", "8", "9",
               "a", "b", "c", "d", "e", "f">>
HexUpper == <<"0", "1", "2", "3", "4", "5", "6", "7", "8", "9",
              "A", "B", "C", "D", "E", "F">>

IsHexDigit(c) == c \in Range(HexDigits) \cup Range(HexUpper)

HexVal(c) ==
    IF c \in Range(HexDigits)
    THEN (CHOOSE i \in 1..16 : HexDigits[i] = c) - 1
    ELSE (CHOOSE i \in 1..16 : HexUpper[i] = c) - 1

\* BlockHash::try_from(&str): the hex digits, two per byte.
BlockHashTryFrom(id) ==
    IF Len(id) % 2 = 0 /\ \A i \in 1..Len(id) : IsHexDigit(id[i])
    THEN [ok |-> TRUE,
          bytes |-> [k \in 1..(Len(id) \div 2) |->
                        16 * HexVal(id[2 * k - 1]) + HexVal(id[2 * k])]]
    ELSE [ok |-> FALSE, bytes |-> <<>>]

Limb == 65536

\* Faulty variant: a number that does not fit is clamped to i32::MAX.
AsBlockNumberSaturating(number) ==
    IF number[1] # 0 \/ number[2] # 0 \/ number[3] >= Limb \div 2
    THEN (Limb \div 2 - 1) * Limb + (Limb - 1)
    ELSE number[3] * Limb + number[4]

\* `*number as BlockNumber`: u64 -> i32 keeps the low 32 bits, read signed.
AsBlockNumber(number) ==
    LET hi == number[3]
        lo == number[4]
    IN  IF hi >= Limb \div 2 THEN (hi - Limb) * Limb + lo ELSE hi * Limb + lo

\* FirehoseCursor::from(cursor.clone())
FirehoseCursorFrom(cursor) == [cursor |-> cursor]

NoBlock == [hash |-> <<>>, number |-> 0, changes |-> <<>>]
NoPtr == [hash |-> <<>>, number |-> 0]

Outcome(kind, err, block, triggers, ptr, cursor, steps) ==
    [kind |-> kind, err |-> err, block |-> block, triggers |-> triggers,
     ptr |-> ptr, cursor |-> cursor, steps |-> steps]

Plain(kind, err, steps) ==
    Outcome(kind, err, NoBlock, <<>>, NoPtr, FirehoseCursorFrom(""), steps)

\* Faulty variant: a Revert points at the parent of the clock's block.
MatchStepRevertingParent(step, hash, number, changes, cursor, steps) ==
    CASE step \in {"StepIrreversible", "StepNew"} ->
            Outcome("ProcessBlock", "",
                    [hash |-> hash, number |-> number, changes |-> changes],
                    <<"TriggerData">>, NoPtr, FirehoseCursorFrom(cursor), steps)
      [] step = "StepUndo" ->
            Outcome("Revert", "", NoBlock, <<>>,
                    [hash |-> hash, number |-> number - 1],
                    FirehoseCursorFrom(cursor), steps)
      [] step = "StepUnknown" ->
            Plain("Panic", "unknown step should not happen", steps)

\* Faulty variant: an Unknown step is processed like a New one.
MatchStepProcessingUnknown(step, hash, number, changes, cursor, steps) ==
    CASE step \in {"StepIrreversible", "StepNew", "StepUnknown"} ->
            Outcome("ProcessBlock", "",
                    [hash |-> hash, number |-> number, changes |-> changes],
                    <<"TriggerData">>, NoPtr, FirehoseCursorFrom(cursor), steps)
      [] step = "StepUndo" ->
            Outcome("Revert", "", NoBlock, <<>>,
                    [hash |-> hash, number |-> number],
                    FirehoseCursorFrom(cursor), steps)

\* Faulty variant: an Irreversible block carries no trigger.
MatchStepWithoutTrigger(step, hash, number, changes, cursor, steps) ==
    CASE step \in {"StepIrreversible", "StepNew"} ->
            Outcome("ProcessBlock", "",
                    [hash |-> hash, number |-> number, changes |-> changes],
                    IF step = "StepNew" THEN <<"TriggerData">> ELSE <<>>,
                    NoPtr, FirehoseCursorFrom(cursor), steps)
      [] step = "StepUndo" ->
            Outcome("Revert", "", NoBlock, <<>>,
                    [hash |-> hash, number |-> number],
                    FirehoseCursorFrom(cursor), steps)
      [] step = "StepUnknown" ->
            Plain("Panic", "unknown step should not happen", steps)

\* Faulty variant: a Revert carries the default cursor.
MatchStepDroppingCursor(step, hash, number, changes, cursor, steps) ==
    CASE step \in {"StepIrreversible", "StepNew"} ->
            Outcome("ProcessBlock", "",
                    [hash |-> hash, number |-> number, changes |-> changes],
                    <<"TriggerData">>, NoPtr, FirehoseCursorFrom(cursor), steps)
      [] step = "StepUndo" ->
            Outcome("Revert", "", NoBlock, <<>>,
                    [hash |-> hash, number |-> number],
                    FirehoseCursorFrom(""), steps)
      [] step = "StepUnknown" ->
            Plain("Panic", "unknown step should not happen", steps)

\* `match step`: the event for a decoded map output.
MatchStep(step, hash, number, changes, cursor, steps) ==
    CASE step \in {"StepIrreversible", "StepNew"} ->
            Outcome("ProcessBlock", "",
                    [hash |-> hash, number |-> number, changes |-> changes],
                    <<"TriggerData">>, NoPtr, FirehoseCursorFrom(cursor), steps)
      [] step = "StepUndo" ->
            Outcome("Revert", "", NoBlock, <<>>,
                    [hash |-> hash, number |-> number],
                    FirehoseCursorFrom(cursor), steps)
      [] step = "StepUnknown" ->
            Plain("Panic", "unknown step should not happen", steps)

\* Faulty variant: a store-delta output is passed over as nothing to do.
MatchDataSkippingStoreDeltas(p, step, hash, number, steps) ==
    IF p.outputs[1].data = "None"
    THEN Plain("Panic", "data unwrap on None", steps \o <<"data">>)
    ELSE IF p.outputs[1].data = "StoreDeltas"
    THEN Plain("None", "", steps \o <<"data">>)
    ELSE IF ~p.outputs[1].value.valid
    THEN Plain("Panic", "decode unwrap on Err", steps \o <<"data", "decode">>)
    ELSE MatchStep(step, hash, number, p.outputs[1].value.changes, p.cursor,
                   steps \o <<"data", "decode">>)

\* `match module_output.data.as_ref().unwrap()`, with Message::decode(..).unwrap().
MatchData(p, step, hash, number, steps) ==
    IF p.outputs[1].data = "None"
    THEN Plain("Panic", "data unwrap on None", steps \o <<"data">>)
    ELSE IF p.outputs[1].data = "StoreDeltas"
    THEN Plain("Err", "UnexpectedStoreDeltaOutput", steps \o <<"data">>)
    ELSE IF ~p.outputs[1].value.valid
    THEN Plain("Panic", "decode unwrap on Err", steps \o <<"data", "decode">>)
    ELSE MatchStep(step, hash, number, p.outputs[1].value.changes, p.cursor,
                   steps \o <<"data", "decode">>)

\* The conversions of the clock's id and number.
ConvertClock(p, step, hash, steps) ==
    IF ~hash.ok THEN Plain("Err", "FromHexError", steps)
    ELSE MatchData(p, step, hash.bytes, AsBlockNumber(p.clock.v.number), steps)

\* block_scoped_data.clock.as_ref().unwrap()
ReadClock(p, step, steps) ==
    IF ~p.clock.some THEN Plain("Panic", "clock unwrap on None", steps \o <<"clock">>)
    ELSE ConvertClock(p, step, BlockHashTryFrom(p.clock.v.id), steps \o <<"clock">>)

\* Faulty variant: the clock is unwrapped before the outputs are counted.
CheckOutputsAfterClock(p, step, steps) ==
    IF ~p.clock.some THEN Plain("Panic", "clock unwrap on None", steps \o <<"clock">>)
    ELSE IF Len(p.outputs) = 0 THEN Plain("None", "", steps \o <<"outputs.len">>)
    ELSE IF Len(p.outputs) > 1
    THEN Plain("Err", "MultipleModuleOutputError", steps \o <<"outputs.len">>)
    ELSE ReadClock(p, step, steps \o <<"outputs.len">>)

\* Faulty variant: with several outputs the first one is taken.
CheckOutputsTakingFirst(p, step, steps) ==
    IF Len(p.outputs) = 0 THEN Plain("None", "", steps \o <<"outputs.len">>)
    ELSE ReadClock(p, step, steps \o <<"outputs.len">>)

\* The two checks of outputs.len().
CheckOutputs(p, step, steps) ==
    IF Len(p.outputs) = 0 THEN Plain("None", "", steps \o <<"outputs.len">>)
    ELSE IF Len(p.outputs) > 1
    THEN Plain("Err", "MultipleModuleOutputError", steps \o <<"outputs.len">>)
    ELSE ReadClock(p, step, steps \o <<"outputs.len">>)

\* ForkStep::from_i32(step).unwrap_or_else(|| panic!(..))
UnwrapStep(p, step) ==
    IF ~step.some THEN Plain("Panic", "unknown step i32 value", <<"step">>)
    ELSE CheckOutputs(p, step.v, <<"step">>)

\* Mapper::to_block_stream_event. `steps` of the outcome lists what the call read
\* of the payload, in order.
ToBlockStreamEvent(p) == UnwrapStep(p, ForkStepFromI32(p.step))

\* ------------------------------------------------------------------ trigger.rs

Digits == <<"0", "1", "2", "3", "4", "5", "6", "7", "8", "9">>

IsDigit(c) == c \in Range(Digits)

RECURSIVE StripZeros(_)
\* The digits without leading zeros ("0" for zero).
StripZeros(ds) ==
    IF Len(ds) > 1 /\ ds[1] = "0" THEN StripZeros(Tail(ds)) ELSE ds

\* BigInt::from_str: an optional sign and at least one decimal digit; the value
\* is the sign and the magnitude's digits (zero has no sign).
BigIntFromStr(s) ==
    LET signed == Len(s) > 0 /\ s[1] \in {"+", "-"}
        ds == IF signed THEN Tail(s) ELSE s
    IN  IF Len(ds) = 0 \/ \E i \in 1..Len(ds) : ~IsDigit(ds[i])
        THEN [ok |-> FALSE, v |-> <<>>]
        ELSE LET mag == StripZeros(ds)
             IN  [ok |-> TRUE,
                  v |-> [neg |-> signed /\ s[1] = "-" /\ mag # <<"0">>, mag |-> mag]]

DigitVal(c) == (CHOOSE i \in 1..10 : Digits[i] = c) - 1

RECURSIVE NatOf(_)
\* The number a text of decimal digits writes.
NatOf(ds) ==
    IF Len(ds) = 0 THEN 0
    ELSE 10 * NatOf(SubSeq(ds, 1, Len(ds) - 1)) + DigitVal(ds[Len(ds)])

\* i64::from_str on the exponent text: an optional sign and at least one digit.
I64FromStr(s) ==
    LET signed == Len(s) > 0 /\ s[1] \in {"+", "-"}
        ds == IF signed THEN Tail(s) ELSE s
    IN  IF Len(ds) = 0 \/ \E i \in 1..Len(ds) : ~IsDigit(ds[i])
        THEN [ok |-> FALSE, v |-> 0]
        ELSE [ok |-> TRUE, v |-> IF signed /\ s[1] = "-" THEN 0 - NatOf(ds) ELSE NatOf(ds)]

\* The position of the first character of s that is in cs, Len(s) + 1 if none.
Find(s, cs) ==
    IF \E i \in 1..Len(s) : s[i] \in cs
    THEN CHOOSE i \in 1..Len(s) : s[i] \in cs /\ \A j \in 1..(i - 1) : s[j] \notin cs
    ELSE Len(s) + 1

\* The exponent of a decimal text split at position e: none is 0, and one "+"
\* before the exponent is skipped.
ExponentOf(s, e) ==
    IF e > Len(s) THEN [ok |-> TRUE, v |-> 0]
    ELSE IF e < Len(s) /\ s[e + 1] = "+" THEN I64FromStr(SubSeq(s, e + 2, Len(s)))
    ELSE I64FromStr(SubSeq(s, e + 1, Len(s)))

\* BigDecimal::normalized: zero is 0 with scale 0, otherwise the trailing zeros of
\* the unscaled integer are taken off it and off the scale.
Normalized(int, scale) ==
    LET zeros == CHOOSE t \in 0..Len(int.mag) :
                    /\ \A k \in 1..t : int.mag[Len(int.mag) + 1 - k] = "0"
                    /\ t < Len(int.mag) => int.mag[Len(int.mag) - t] # "0"
    IN  IF int.mag = <<"0">> THEN [int |-> int, scale |-> 0]
        ELSE [int |-> [int EXCEPT !.mag = SubSeq(int.mag, 1, Len(int.mag) - zeros)],
              scale |-> scale - zeros]

\* The decimal of a base text (sign, digits, at most one point) and an exponent.
DecimalOf(base, exp) ==
    LET dot == Find(base, {"."})
        int == BigIntFromStr(SubSeq(base, 1, dot - 1) \o SubSeq(base, dot + 1, Len(base)))
    IN  IF Len(base) = 0 \/ ~exp.ok \/ ~int.ok THEN [ok |-> FALSE, v |-> <<>>]
        ELSE [ok |-> TRUE,
              v |-> Normalized(int.v, (IF dot > Len(base) THEN 0 ELSE Len(base) - dot) - exp.v)]

\* BigDecimal::from_str: the text is split at the first "e" or "E" into a base
\* and an exponent; the value is the unscaled integer and the scale, normalized.
BigDecimalFromStr(s) ==
    DecimalOf(SubSeq(s, 1, Find(s, {"e", "E"}) - 1), ExponentOf(s, Find(s, {"e", "E"})))

Base64Alphabet ==
    <<"A", "B", "C", "D", "E", "F", "G", "H", "I", "J", "K", "L", "M",
      "N", "O", "P", "Q", "R", "S", "T", "U", "V", "W", "X", "Y", "Z",
      "a", "b", "c", "d", "e", "f", "g", "h", "i", "j", "k", "l", "m",
      "n", "o", "p", "q", "r", "s", "t", "u", "v", "w", "x", "y", "z",
      "0", "1", "2", "3", "4", "5", "6", "7", "8", "9", "+", "/">>

B64Val(c) == (CHOOSE i \in 1..64 : Base64Alphabet[i] = c) - 1

\* The bytes of one group of four symbols, "=" padding the last group only.
B64Group(g, last) ==
    LET pad == IF g[4] # "=" THEN 0 ELSE IF g[3] # "=" THEN 1 ELSE 2
        syms == SubSeq(g, 1, 4 - pad)
        ok == /\ \A i \in 1..Len(syms) : syms[i] \in Range(Base64Alphabet)
              /\ pad > 0 => last
        a == B64Val(g[1])
        b == B64Val(g[2])
        c == B64Val(g[3])
        d == B64Val(g[4])
    IN  IF ~ok THEN [ok |-> FALSE, v |-> <<>>]
        ELSE IF pad = 0
        THEN [ok |-> TRUE,
              v |-> <<a * 4 + b \div 16, (b % 16) * 16 + c \div 4, (c % 4) * 64 + d>>]
        ELSE IF pad = 1
        THEN [ok |-> c % 4 = 0, v |-> <<a * 4 + b \div 16, (b % 16) * 16 + c \div 4>>]
        ELSE [ok |-> b % 16 = 0, v |-> <<a * 4 + b \div 16>>]

RECURSIVE B64Groups(_)
B64Groups(s) ==
    IF Len(s) = 0 THEN [ok |-> TRUE, v |-> <<>>]
    ELSE LET g == B64Group(SubSeq(s, 1, 4), Len(s) = 4)
             rest == B64Groups(SubSeq(s, 5, Len(s)))
         IN  IF g.ok /\ rest.ok THEN [ok |-> TRUE, v |-> g.v \o rest.v]
             ELSE [ok |-> FALSE, v |-> <<>>]

\* base64::decode: the standard alphabet, padded, length a multiple of four.
Base64Decode(s) ==
    IF Len(s) % 4 # 0 THEN [ok |-> FALSE, v |-> <<>>] ELSE B64Groups(s)

\* A store value: its variant and what it holds.
Value(t, v) == <<t, v>>
Null == Value("Null", <<>>)

Decoded(kind, value) == [kind |-> kind, value |-> value]

\* .map(|x| Value::T(x)).map_err(|err| MappingError::Unknown(err))
MapParsed(parsed, t, err) ==
    IF parsed.ok THEN Decoded("Ok", Value(t, parsed.v))
    ELSE Decoded("Err", Value("Error", err))

\* decode_entity_change, called on a field whose new_value is present.
\* kind is "Ok", "Err" (a MappingError) or "Panic" (typed is None).
decode_entity_change(field) ==
    LET nv == [typed |-> field.new_value.v[1], v |-> field.new_value.v[2]]
    IN  CASE nv.typed = "None" -> Decoded("Panic", Null)
          [] nv.typed = "Int32" -> Decoded("Ok", Value("Int", nv.v))
          [] nv.typed = "Bigdecimal" ->
                MapParsed(BigDecimalFromStr(nv.v), "BigDecimal", "ParseBigDecimalError")
          [] nv.typed = "Bigint" ->
                MapParsed(BigIntFromStr(nv.v), "BigInt", "ParseBigIntError")
          [] nv.typed = "String" -> Decoded("Ok", Value("String", nv.v))
          [] nv.typed = "Bytes" ->
                MapParsed(Base64Decode(nv.v), "Bytes", "DecodeError")
          [] nv.typed = "Bool" -> Decoded("Err", Value("Error", "unimplemented"))
          [] nv.typed = "Array" -> Decoded("Err", Value("Error", "unimplemented"))

LowerCase == <<"a", "b", "c", "d", "e", "f", "g", "h", "i", "j", "k", "l", "m",
               "n", "o", "p", "q", "r", "s", "t", "u", "v", "w", "x", "y", "z">>
UpperCase == <<"A", "B", "C", "D", "E", "F", "G", "H", "I", "J", "K", "L", "M",
               "N", "O", "P", "Q", "R", "S", "T", "U", "V", "W", "X", "Y", "Z">>

\* str::to_uppercase on one ASCII character.
ToUppercase(c) ==
    IF c \in Range(LowerCase)
    THEN UpperCase[CHOOSE i \in 1..26 : LowerCase[i] = c]
    ELSE c

\* Characters whose UTF-8 encoding takes more than one byte.
MultiByte == {"e-acute"}

\* entity[0..1].to_uppercase() + &entity[1..]; the byte slice panics on an empty
\* name and on a name whose first character is longer than one byte.
NormalizedType(entity) ==
    IF Len(entity) = 0 \/ entity[1] \in MultiByte THEN None
    ELSE Some(<<ToUppercase(entity[1])>> \o SubSeq(entity, 2, Len(entity)))

EntityKey(entity_type, entity_id) == [entity_type |-> entity_type, entity_id |-> entity_id]

EmptyData == [n \in {} |-> Null]

\* Faulty variant: data.entry(name).or_insert(value), which keeps an entry already there.
EntryInsertIfAbsent(data, name, value) ==
    [n \in DOMAIN data \cup {name} |-> IF n \in DOMAIN data THEN data[n] ELSE value]

\* *data.entry(name).or_insert(Value::Null) = value
EntryAssign(data, name, value) ==
    [n \in DOMAIN data \cup {name} |-> IF n = name THEN value ELSE data[n]]

\* EntityCache::set: upsert of the entity under its key.
EntityCacheSet(c, key, data) ==
    [k \in DOMAIN c \cup {key} |->
        IF k = key
        THEN IF key \in DOMAIN c
             THEN [n \in DOMAIN c[key] \cup DOMAIN data |->
                      IF n \in DOMAIN data THEN data[n] ELSE c[key][n]]
             ELSE data
        ELSE c[k]]

\* EntityCache::remove
EntityCacheRemove(c, key) == [k \in DOMAIN c \ {key} |-> c[k]]

Call(name, at, entity_type, id, data, ok) ==
    [call |-> name, at |-> at, entity_type |-> entity_type, id |-> id,
     data |-> data, ok |-> ok]

PoiEvent(ev, entity_type, id, data) ==
    [event |-> ev, entity_type |-> entity_type, id |-> id, data |-> data]

\* Faulty variant: a proof-of-indexing event without an accumulator is an error.
write_poi_event_requiring(st, at, ev) ==
    IF st.poi.some
    THEN [st EXCEPT !.poi = Some(Append(st.poi.v, ev)),
                    !.calls = Append(st.calls,
                        Call(ev.event, at, ev.entity_type, ev.id, ev.data, TRUE))]
    ELSE [st EXCEPT !.result = [kind |-> "Err", err |-> "no proof of indexing", at |-> at]]

\* write_poi_event: writes only when an accumulator is configured.
write_poi_event(st, at, ev) ==
    IF st.poi.some
    THEN [st EXCEPT !.poi = Some(Append(st.poi.v, ev)),
                    !.calls = Append(st.calls,
                        Call(ev.event, at, ev.entity_type, ev.id, ev.data, TRUE))]
    ELSE st

Stop(st, kind, err, at) == [st EXCEPT !.result = [kind |-> kind, err |-> err, at |-> at]]

Logged(st, c) == [st EXCEPT !.calls = Append(st.calls, c)]

RECURSIVE DecodeFields(_, _, _)
\* `let value = decode_entity_change(&field)?`, then the entry assignment.
DecodeField(fields, i, data, d) ==
    IF d.kind = "Ok"
    THEN DecodeFields(fields, i + 1, EntryAssign(data, fields[i].name, d.value))
    ELSE [kind |-> d.kind, data |-> data,
          err |-> IF d.kind = "Err" THEN d.value[2] ELSE "typed unwrap on None"]

\* Faulty variant: a field with no new_value is entered with Value::Null.
DecodeFieldsSettingNull(fields, i, data) ==
    IF i > Len(fields) THEN [kind |-> "Ok", data |-> data, err |-> ""]
    ELSE IF ~fields[i].new_value.some
    THEN DecodeFields(fields, i + 1, EntryAssign(data, fields[i].name, Null))
    ELSE DecodeField(fields, i, data, decode_entity_change(fields[i]))

\* The loop over entity_change.fields: stops at the first field that fails.
DecodeFields(fields, i, data) ==
    IF i > Len(fields) THEN [kind |-> "Ok", data |-> data, err |-> ""]
    ELSE IF ~fields[i].new_value.some THEN DecodeFields(fields, i + 1, data)
    ELSE DecodeField(fields, i, data, decode_entity_change(fields[i]))

\* Faulty variant: the entity is written to the cache although the upsert fails.
SetEntityWritingOnError(st, key, data, at, failAt) ==
    IF at = failAt
    THEN Stop(Logged([st EXCEPT !.cache = EntityCacheSet(st.cache, key, data)],
                     Call("set", at, key.entity_type, key.entity_id, data, FALSE)),
              "Err", "StoreError", at)
    ELSE Logged([st EXCEPT !.cache = EntityCacheSet(st.cache, key, data)],
                Call("set", at, key.entity_type, key.entity_id, data, TRUE))

\* Faulty variant: the error of the upsert is not propagated and the loop goes on.
SetEntityIgnoringError(st, key, data, at, failAt) ==
    IF at = failAt
    THEN Logged(st, Call("set", at, key.entity_type, key.entity_id, data, FALSE))
    ELSE Logged([st EXCEPT !.cache = EntityCacheSet(st.cache, key, data)],
                Call("set", at, key.entity_type, key.entity_id, data, TRUE))

\* state.entity_cache.set(key, Entity::from(data))?
SetEntity(st, key, data, at, failAt) ==
    IF at = failAt
    THEN Stop(Logged(st, Call("set", at, key.entity_type, key.entity_id, data, FALSE)),
              "Err", "StoreError", at)
    ELSE Logged([st EXCEPT !.cache = EntityCacheSet(st.cache, key, data)],
                Call("set", at, key.entity_type, key.entity_id, data, TRUE))

\* Faulty variant: the store upsert first, the proof-of-indexing event after it
\* has succeeded.
WriteAndSetStoreFirst(st, change, at, failAt, entity_type, fields) ==
    IF ~entity_type.some THEN Stop(st, "Panic", "slice index out of range", at)
    ELSE IF fields.kind # "Ok" THEN Stop(st, fields.kind, fields.err, at)
    ELSE IF at = failAt
    THEN SetEntity(st, EntityKey(entity_type.v, change.id), fields.data, at, failAt)
    ELSE write_poi_event(
             SetEntity(st, EntityKey(entity_type.v, change.id), fields.data, at, failAt),
             at, PoiEvent("SetEntity", entity_type.v, change.id, fields.data))

\* Faulty variant: when a field fails to decode, the fields decoded before it are
\* still recorded and written.
WriteAndSetPartial(st, change, at, failAt, entity_type, fields) ==
    IF ~entity_type.some THEN Stop(st, "Panic", "slice index out of range", at)
    ELSE IF fields.kind # "Ok"
    THEN Stop(SetEntity(write_poi_event(st, at,
                            PoiEvent("SetEntity", entity_type.v, change.id, fields.data)),
                        EntityKey(entity_type.v, change.id), fields.data, at, 0),
              fields.kind, fields.err, at)
    ELSE SetEntity(write_poi_event(st, at,
                       PoiEvent("SetEntity", entity_type.v, change.id, fields.data)),
                   EntityKey(entity_type.v, change.id), fields.data, at, failAt)

\* The Create | Update arm once the type name and the fields are computed:
\* the proof-of-indexing event, then the store upsert.
WriteAndSet(st, change, at, failAt, entity_type, fields) ==
    IF ~entity_type.some THEN Stop(st, "Panic", "slice index out of range", at)
    ELSE IF fields.kind # "Ok" THEN Stop(st, fields.kind, fields.err, at)
    ELSE SetEntity(write_poi_event(st, at,
                       PoiEvent("SetEntity", entity_type.v, change.id, fields.data)),
                   EntityKey(entity_type.v, change.id), fields.data, at, failAt)

\* The Create | Update arm of process_trigger for the change at position `at`.
ApplySet(st, change, at, failAt) ==
    WriteAndSet(st, change, at, failAt,
                NormalizedType(change.entity), DecodeFields(change.fields, 1, EmptyData))

\* state.entity_cache.remove(key)
RemoveEntity(st, key, at) ==
    Logged([st EXCEPT !.cache = EntityCacheRemove(st.cache, key)],
           Call("remove", at, key.entity_type, key.entity_id, EmptyData, TRUE))

\* Faulty variant: Delete normalizes the type name as Create and Update do.
ApplyDeleteNormalizing(st, change, at) ==
    IF ~NormalizedType(change.entity).some
    THEN Stop(st, "Panic", "slice index out of range", at)
    ELSE write_poi_event(
             RemoveEntity(st, EntityKey(NormalizedType(change.entity).v, change.id), at),
             at, PoiEvent("RemoveEntity", NormalizedType(change.entity).v, change.id,
                          EmptyData))

\* The Delete arm of process_trigger: the removal, then the proof-of-indexing event.
ApplyDelete(st, change, at) ==
    write_poi_event(RemoveEntity(st, EntityKey(change.entity, change.id), at), at,
                    PoiEvent("RemoveEntity", change.entity, change.id, EmptyData))

\* Faulty variant: an Unset change is skipped and the loop goes on.
ApplyChangeSkippingUnset(st, change, at, failAt) ==
    CASE change.operation = "Unset" -> st
      [] change.operation \in {"Create", "Update"} -> ApplySet(st, change, at, failAt)
      [] change.operation = "Delete" -> ApplyDelete(st, change, at)

\* One iteration of the loop of process_trigger.
ApplyChange(st, change, at, failAt) ==
    CASE change.operation = "Unset" -> Stop(st, "Err", "Detected UNSET entity operation", at)
      [] change.operation \in {"Create", "Update"} -> ApplySet(st, change, at, failAt)
      [] change.operation = "Delete" -> ApplyDelete(st, change, at)

RECURSIVE ApplyFrom(_, _, _, _)
\* Faulty variant: the changes are taken from the end of the list.
ApplyFromReversed(st, changes, at, failAt) ==
    IF at > Len(changes) \/ st.result.kind # "Ok" THEN st
    ELSE ApplyFrom(ApplyChange(st, changes[Len(changes) + 1 - at],
                               Len(changes) + 1 - at, failAt),
                   changes, at + 1, failAt)

\* `for entity_change in block.changes.entity_changes.iter()`
ApplyFrom(st, changes, at, failAt) ==
    IF at > Len(changes) \/ st.result.kind # "Ok" THEN st
    ELSE ApplyFrom(ApplyChange(st, changes[at], at, failAt), changes, at + 1, failAt)

Dropped == [dropped |-> TRUE]

BlockState(entity_cache) == [dropped |-> FALSE, entity_cache |-> entity_cache]

\* What the caller holds after the call: `state` was moved into the call and comes
\* back only in Ok(state); `cache` is the call's own entity cache when it ended.
Returned(state, proof_of_indexing, failAt, end) ==
    [inState |-> state, poiIn |-> proof_of_indexing, failAt |-> failAt,
     result |-> end.result,
     state |-> IF end.result.kind = "Ok" THEN BlockState(end.cache) ELSE Dropped,
     cache |-> end.cache, poi |-> end.poi, calls |-> end.calls]

\* TriggerProcessor::process_trigger: the block's changes applied to the block
\* state moved into the call, with the store upsert at position failAt failing.
process_trigger(block, state, proof_of_indexing, failAt) ==
    Returned(state, proof_of_indexing, failAt,
        ApplyFrom([cache |-> state.entity_cache, poi |-> proof_of_indexing,
                   calls |-> <<>>, result |-> [kind |-> "Ok", err |-> "", at |-> 0]],
                  block.changes, 1, failAt))

\* ------------------------------------------------------------------ TriggerFilter

DefaultFilter ==
    [modules |-> None, module_name |-> "", start_block |-> None, data_sources_len |-> 0]

\* Faulty variant: every call that is given a data source takes it.
extendLastWins(f, data_sources) ==
    IF Len(data_sources) > 0
    THEN [modules |-> data_sources[1].modules,
          module_name |-> data_sources[1].module_name,
          start_block |-> data_sources[1].initial_block, data_sources_len |-> 1]
    ELSE f

\* TriggerFilter::extend with the data sources the iterator yields.
extend(f, data_sources) ==
    IF f.data_sources_len >= 1 THEN f
    ELSE IF Len(data_sources) > 0
    THEN LET ds == data_sources[1]
         IN  [modules |-> ds.modules, module_name |-> ds.module_name,
              start_block |-> ds.initial_block, data_sources_len |-> 1]
    ELSE f

\* TriggerFilter::extend_with_template
extend_with_template(f, templates) == f

\* ------------------------------------------------------------------ inputs

Text_to == <<"t", "o">>
Text_To == <<"T", "o">>
Text_tO == <<"t", "O">>
Text_1o == <<"1", "o">>
Text_eo == <<"e-acute", "o">>

\* A wire value: Some(Value { typed }) as the tag of `typed` and what it holds.
Typed(tag, v) == Some(<<tag, v>>)

Field(name, new_value) == [name |-> name, new_value |-> new_value]

SampleFields ==
    { Field("name", Typed("String", <<"A">>)),
      Field("name", Typed("String", <<"B">>)),
      Field("name", None),
      Field("count", Typed("Int32", -5)),
      Field("count", Typed("Bigint", <<"-", "0", "7">>)),
      Field("flag", Typed("Bool", <<>>)),
      Field("name", Typed("Bytes", <<"Q", "Q", "=", "=">>)),
      Field("name", Typed("Bigdecimal", <<"1", ".", ".">>)),
      Field("count", Typed("Bigdecimal", <<"1", ".", "5", "0", "e", "-", "1">>)),
      Field("flag", Typed("Array", <<>>)),
      Field("name", Typed("None", <<>>)) }

MaxFields == 2

Change(operation, entity, id, fields) ==
    [operation |-> operation, entity |-> entity, id |-> id, fields |-> fields]

\* The changes that lists of several changes are built from.
CoreChanges ==
    { Change("Create", Text_to, "1",
             <<Field("name", Typed("String", <<"A">>)), Field("name", Typed("String", <<"B">>))>>),
      Change("Update", Text_To, "1",
             <<Field("count", Typed("Int32", -5)), Field("name", None)>>),
      Change("Create", Text_to, "2",
             <<Field("name", Typed("String", <<"A">>)), Field("flag", Typed("Bool", <<>>))>>),
      Change("Delete", Text_to, "1", <<>>),
      Change("Delete", Text_To, "1", <<>>),
      Change("Unset", Text_to, "1", <<Field("name", Typed("String", <<"A">>))>>) }

\* Single changes over every sample field list, and over every operation and name.
FieldChanges ==
    {Change("Create", Text_to, "1", fs) : fs \in SeqsUpTo(SampleFields, MaxFields)}

NameChanges ==
    {Change(op, e, "1", <<Field("name", Typed("String", <<"A">>))>>) :
        op \in {"Create", "Update", "Delete", "Unset"},
        e \in {Text_to, Text_To, Text_tO, Text_1o, Text_eo, <<>>}}

ChangeLists ==
    SeqsUpTo(CoreChanges, MaxChanges)
        \cup {<<c>> : c \in FieldChanges \cup NameChanges}

MapOutput(valid, changes) ==
    [data |-> "MapOutput", value |-> [valid |-> valid, changes |-> changes]]

OtherOutput(data) == [data |-> data, value |-> [valid |-> FALSE, changes |-> <<>>]]

SampleOutputs ==
    { MapOutput(TRUE, <<Change("Delete", Text_to, "1", <<>>),
                        Change("Create", Text_to, "1",
                               <<Field("name", Typed("String", <<"A">>))>>)>>),
      MapOutput(FALSE, <<>>),
      OtherOutput("StoreDeltas"),
      OtherOutput("None") }

Clock(id, number) == Some([id |-> id, number |-> number])

SampleClocks ==
    {None} \cup
    {Clock(id, n) :
        id \in {<<"a", "1">>, <<"A", "1">>, <<"g", "1">>, <<"a">>},
        n \in {<<0, 0, 0, 7>>, <<0, 0, 32767, 65535>>, <<0, 0, 32768, 0>>, <<0, 1, 0, 7>>}}

Payload(step, cursor, clock, outputs) ==
    [step |-> step, cursor |-> cursor, clock |-> clock, outputs |-> outputs]

\* Payloads that vary what the mapper looks at.
MapperPayloads ==
    {Payload(step, cursor, clock, outputs) :
        step \in {0, 1, 2, 3, 4}, cursor \in {"c1", "c2"},
        clock \in SampleClocks, outputs \in SeqsUpTo(SampleOutputs, MaxOutputs)}

\* Payloads that vary the entity changes of a block to process.
BlockPayloads ==
    {Payload(1, "c1", Clock(<<"a", "1">>, <<0, 0, 0, 7>>), <<MapOutput(TRUE, cs)>>) :
        cs \in ChangeLists}

Payloads == MapperPayloads \cup BlockPayloads

EmptyCache == [k \in {} |-> EmptyData]

\* The block states a call can be handed: nothing cached, or entities of earlier blocks.
InStates ==
    { BlockState(EmptyCache),
      BlockState(EntityCacheSet(
          EntityCacheSet(EmptyCache, EntityKey(Text_To, "1"),
                         EntryAssign(EmptyData, "owner", Value("String", <<"Z">>))),
          EntityKey(Text_to, "1"),
          EntryAssign(EmptyData, "name", Value("String", <<"Z">>)))) }

\* No accumulator, a fresh one, or one that already holds an event.
PoiIns ==
    {None, Some(<<>>), Some(<<PoiEvent("RemoveEntity", Text_To, "0", EmptyData)>>)}

DataSource(modules, module_name, initial_block) ==
    [modules |-> modules, module_name |-> module_name, initial_block |-> initial_block]

SampleDataSources ==
    {DataSource(m, n, b) :
        m \in {None, Some("modsA")},
        n \in {"map_a", "map_b"},
        b \in {None, Some(12)}}

MaxDataSources == 2

\* ------------------------------------------------------------------ the driver

NotCalled == [kind |-> "NotCalled", err |-> "", at |-> 0]

NoEvent == Plain("NotCalled", "", <<>>)

EmptyPayload == Payload(1, "", None, <<>>)

NoCall ==
    [inState |-> BlockState(EmptyCache), poiIn |-> None, failAt |-> 0,
     result |-> NotCalled, state |-> Dropped,
     cache |-> EmptyCache, poi |-> None, calls |-> <<>>]

Init ==
    /\ pc = "idle"
    /\ payload = EmptyPayload
    /\ event = NoEvent
    /\ call = NoCall
    /\ filter = DefaultFilter
    /\ extended = <<>>

\* The driver hands the next payload of the stream to the mapper.
MapPayload ==
    /\ pc = "idle"
    /\ \E p \in Payloads :
          /\ payload' = p
          /\ event' = ToBlockStreamEvent(p)
    /\ pc' = IF event'.kind = "Panic" THEN "aborted" ELSE "mapped"
    /\ UNCHANGED <<call, filter, extended>>

\* The driver runs the trigger processor on the block of a ProcessBlock event,
\* once: the event carries a single trigger.
ProcessTrigger ==
    /\ pc = "mapped"
    /\ event.kind = "ProcessBlock"
    /\ \E state \in InStates, proof_of_indexing \in PoiIns,
          failAt \in 0..Len(event.block.changes) :
          call' = process_trigger(event.block, state, proof_of_indexing, failAt)
    /\ pc' = IF call'.result.kind = "Panic" THEN "aborted" ELSE "processed"
    /\ UNCHANGED <<payload, event, filter, extended>>

\* The driver is done with the payload: a Revert, "no event" or an error it takes
\* itself without trigger processing; a processed block it commits or fails.
EndBlock ==
    /\ \/ pc = "mapped" /\ event.kind \in {"None", "Err", "Revert"}
       \/ pc = "processed"
    /\ pc' = "idle"
    /\ payload' = EmptyPayload
    /\ event' = NoEvent
    /\ call' = NoCall
    /\ UNCHANGED <<filter, extended>>

\* What the log keeps of a call on the filter: the first data source the
\* iterator yields, if any.
ExtendCall(name, data_sources) ==
    [call |-> name,
     first |-> IF Len(data_sources) > 0 THEN Some(data_sources[1]) ELSE None]

\* The subgraph instance extends the filter with its data sources.
Extend ==
    /\ Len(extended) < MaxExtends
    /\ \E data_sources \in SeqsUpTo(SampleDataSources, MaxDataSources) :
          /\ filter' = extend(filter, data_sources)
          /\ extended' = Append(extended, ExtendCall("extend", data_sources))
    /\ UNCHANGED <<pc, payload, event, call>>

ExtendWithTemplate ==
    /\ Len(extended) < MaxExtends
    /\ filter' = extend_with_template(filter, <<"NoopDataSourceTemplate">>)
    /\ extended' = Append(extended, ExtendCall("extend_with_template", <<>>))
    /\ UNCHANGED <<pc, payload, event, call>>

Next == MapPayload \/ ProcessTrigger \/ EndBlock

Spec == Init /\ [][Next]_vars

FilterNext == Extend \/ ExtendWithTemplate

\* The calls on the trigger filter, which no block processing interleaves with.
FilterSpec == Init /\ [][FilterNext]_vars

\* ------------------------------------------------------------------ properties

Called == call.result.kind # "NotCalled"

Changes == event.block.changes

\* The position the call stopped at: past the end when it returned Ok.
StopAt == IF call.result.kind = "Ok" THEN Len(Changes) + 1 ELSE call.result.at

CallsAt(k) == SelectSeq(call.calls, LAMBDA c : c.at = k)

StoreCalls == {"set", "remove"}

IsSet(operation) == operation \in {"Create", "Update"}

\* The calls one applied change makes, by name, given its operation.
ExpectedNames(operation) ==
    IF IsSet(operation)
    THEN (IF call.poiIn.some THEN <<"SetEntity">> ELSE <<>>) \o <<"set">>
    ELSE <<"remove">> \o (IF call.poiIn.some THEN <<"RemoveEntity">> ELSE <<>>)

\* C1: the store mutations and proof-of-indexing events of a call happen in the
\* order of the changes: positions never go back along the call log, every change
\* before the stop position made exactly its own calls once (none skipped, merged
\* or repeated), and each call carries the entity id of the change at its position.
C1_AppliedInInputOrder ==
    Called =>
        /\ \A i, j \in 1..Len(call.calls) :
              i < j => call.calls[i].at <= call.calls[j].at
        /\ \A k \in 1..(StopAt - 1) :
              /\ [i \in 1..Len(CallsAt(k)) |-> CallsAt(k)[i].call]
                    = ExpectedNames(Changes[k].operation)
              /\ \A i \in 1..Len(CallsAt(k)) :
                    CallsAt(k)[i].ok /\ CallsAt(k)[i].id = Changes[k].id
        /\ \A i \in 1..Len(call.calls) : call.calls[i].at \in 1..Len(Changes)

C1_Witness ==
    /\ pc = "processed"
    /\ call.result.kind = "Ok"
    /\ call.poiIn.some
    /\ Len(Changes) = 3
    /\ Changes[1].operation = "Create"
    /\ Changes[2].operation = "Delete"
    /\ Changes[3].operation = "Update"
    /\ Len(call.calls) = 6

\* C2: a call that reaches an Unset change at position k returns the UNSET error
\* there, and no store mutation or proof-of-indexing event is made for position k
\* or any later position.
C2_UnsetAborts ==
    Called =>
        \A k \in 1..Len(Changes) :
            (Changes[k].operation = "Unset" /\ StopAt >= k) =>
                /\ call.result.kind = "Err"
                /\ call.result.err = "Detected UNSET entity operation"
                /\ call.result.at = k
                /\ \A i \in 1..Len(call.calls) : call.calls[i].at < k

C2_Witness ==
    /\ pc = "processed"
    /\ Len(Changes) = 3
    /\ Changes[2].operation = "Unset"
    /\ Changes[3].operation = "Create"
    /\ call.result.at = 2
    /\ Len(call.calls) > 0

\* The call on the changes before the stop position alone, no upsert failing.
PrefixCall ==
    process_trigger([event.block EXCEPT !.changes = SubSeq(Changes, 1, StopAt - 1)],
                    call.inState, call.poiIn, 0)

MutationsOf(cs) == SelectSeq(cs, LAMBDA c : c.call \in StoreCalls /\ c.ok)

\* C3 as stated: after a call that returned an error at position k, the store the
\* caller observes holds exactly the effects of the changes before k.
C3_PrefixObservedAfterError ==
    (Called /\ call.result.kind = "Err") =>
        call.state = BlockState(PrefixCall.cache)

\* C3, amended: when the call returns an error at position k, the entity cache it
\* owned holds exactly the effects of the changes before k and the successful
\* store mutations it made are exactly theirs (nothing is rolled back), but the
\* block state that was moved into the call is not returned with the error.
C3_PrefixAppliedThenDropped ==
    (Called /\ call.result.kind = "Err") =>
        /\ call.cache = PrefixCall.cache
        /\ MutationsOf(call.calls) = MutationsOf(PrefixCall.calls)
        /\ call.state = Dropped

C3_Witness ==
    /\ pc = "processed"
    /\ call.result.kind = "Err"
    /\ call.result.err = "StoreError"
    /\ call.result.at = 3
    /\ call.cache # call.inState.entity_cache
    /\ Len(MutationsOf(call.calls)) = 2

Mapped == event.kind # "NotCalled"

KnownStep == ForkStepFromI32(payload.step).some

OneMapOutput ==
    /\ Len(payload.outputs) = 1
    /\ payload.outputs[1].data = "MapOutput"
    /\ payload.outputs[1].value.valid

\* The lower-case hexadecimal text of a hash, and a text with its letters lowered.
HexOf(bytes) ==
    [i \in 1..(2 * Len(bytes)) |->
        IF i % 2 = 1 THEN HexDigits[(bytes[(i + 1) \div 2] \div 16) + 1]
        ELSE HexDigits[(bytes[i \div 2] % 16) + 1]]

Lowered(text) ==
    [i \in 1..Len(text) |->
        IF text[i] \in Range(UpperCase)
        THEN LowerCase[CHOOSE k \in 1..26 : UpperCase[k] = text[i]]
        ELSE text[i]]

\* A hash and a block number are those of the clock {H, N}.
HashIs(hash, id) == HexOf(hash) = Lowered(id)

FitsBlockNumber(n) == n[1] = 0 /\ n[2] = 0 /\ n[3] < Limb \div 2

NumberIs(number, n) == FitsBlockNumber(n) /\ number = n[3] * Limb + n[4]

ValidHash(id) == Len(id) % 2 = 0 /\ \A i \in 1..Len(id) : IsHexDigit(id[i])

RevertsOwnClock ==
    /\ event.kind = "Revert"
    /\ HashIs(event.ptr.hash, payload.clock.v.id)
    /\ NumberIs(event.ptr.number, payload.clock.v.number)
    /\ call = NoCall

\* C4 as stated: every payload with fork step Undo and a clock {H, N} gives
\* Revert({H, N}), and no store mutation is made.
C4_UndoAlwaysReverts ==
    (Mapped /\ payload.step = 2 /\ payload.clock.some) => RevertsOwnClock

\* C4, amended: a payload with fork step Undo, exactly one module output that is
\* a decodable map output, and a clock {H, N} with H a hexadecimal hash and
\* N <= 2^31 - 1 gives Revert with the pointer {H, N} of its own clock, and no
\* store mutation is made.
C4_UndoWithOneMapOutputReverts ==
    (/\ Mapped /\ payload.step = 2 /\ payload.clock.some /\ OneMapOutput
     /\ ValidHash(payload.clock.v.id) /\ FitsBlockNumber(payload.clock.v.number))
        => RevertsOwnClock

C4_Witness ==
    /\ pc = "mapped"
    /\ payload.step = 2
    /\ event.kind = "Revert"
    /\ payload.clock.v.id = <<"A", "1">>
    /\ event.ptr = [hash |-> <<161>>, number |-> 2147483647]

C6_NoOutputsNoEvent ==
    (Mapped /\ KnownStep /\ Len(payload.outputs) = 0) =>
        /\ event.kind = "None"
        /\ pc = "mapped"
        /\ call = NoCall
        /\ ~ENABLED ProcessTrigger

C6_Witness ==
    /\ pc = "mapped"
    /\ event.kind = "None"
    /\ ~payload.clock.some
    /\ payload.step = 2

\* C7: a payload with a known step and two or more module outputs fails with
\* MultipleModuleOutput having read only the step and the number of outputs:
\* neither the clock nor any output's data or bytes.
C7_SeveralOutputsFailFirst ==
    (Mapped /\ KnownStep /\ Len(payload.outputs) >= 2) =>
        /\ event.kind = "Err"
        /\ event.err = "MultipleModuleOutputError"
        /\ event.steps = <<"step", "outputs.len">>

C7_Witness ==
    /\ pc = "mapped"
    /\ event.err = "MultipleModuleOutputError"
    /\ ~payload.clock.some
    /\ payload.outputs[1].data = "StoreDeltas"
    /\ payload.outputs[2].data = "MapOutput" /\ ~payload.outputs[2].value.valid

OtherForward == [payload EXCEPT !.step = 5 - payload.step]

ProcessesClockBlock ==
    /\ event.kind = "ProcessBlock"
    /\ HashIs(event.block.hash, payload.clock.v.id)
    /\ NumberIs(event.block.number, payload.clock.v.number)
    /\ event.block.changes = payload.outputs[1].value.changes
    /\ Len(event.triggers) = 1
    /\ ToBlockStreamEvent(OtherForward) = event

\* C8 as stated: every payload with step New or Irreversible, a present clock
\* {H, N} and one decodable map output gives ProcessBlock of {H, N, the changes
\* in order} with one trigger, the same for New and Irreversible.
C8_ForwardAlwaysProcesses ==
    (Mapped /\ payload.step \in {1, 4} /\ payload.clock.some /\ OneMapOutput)
        => ProcessesClockBlock

\* C8, amended: the same, for a clock {H, N} with H a hexadecimal hash and
\* N <= 2^31 - 1.
C8_ForwardWithValidClockProcesses ==
    (/\ Mapped /\ payload.step \in {1, 4} /\ payload.clock.some /\ OneMapOutput
     /\ ValidHash(payload.clock.v.id) /\ FitsBlockNumber(payload.clock.v.number))
        => ProcessesClockBlock

C8_Witness ==
    /\ pc = "mapped"
    /\ payload.step = 4
    /\ event.kind = "ProcessBlock"
    /\ Len(event.block.changes) = 2
    /\ event.block.changes[1].operation = "Delete"
    /\ event.block.number = 7

\* C9: every ProcessBlock or Revert event carries the cursor of the payload it
\* was made from.
C9_CursorThreaded ==
    event.kind \in {"ProcessBlock", "Revert"} => event.cursor.cursor = payload.cursor

C9_Witness ==
    /\ pc = "mapped"
    /\ event.kind = "Revert"
    /\ payload.cursor = "c2"
    /\ event.cursor.cursor = "c2"

\* The positions of the fields of a change that have the name and a newValue.
Occurrences(fields, name) ==
    {i \in 1..Len(fields) : fields[i].name = name /\ fields[i].new_value.some}

LastOccurrence(fields, name) ==
    CHOOSE i \in Occurrences(fields, name) : \A j \in Occurrences(fields, name) : j <= i

\* The calls that are handed the entity delta of a Create or Update change.
DeltaCalls == {i \in 1..Len(call.calls) : call.calls[i].call \in {"set", "SetEntity"}}

\* C10: in the entity delta handed to the store and to the proof-of-indexing
\* event for a Create or Update change, every field name that occurs with a
\* present newValue maps to the decoded value of its last such occurrence.
C10_LastOccurrenceWins ==
    Called =>
        \A i \in DeltaCalls :
            \A f \in 1..Len(Changes[call.calls[i].at].fields) :
                LET fields == Changes[call.calls[i].at].fields
                IN  fields[f].new_value.some =>
                        /\ fields[f].name \in DOMAIN call.calls[i].data
                        /\ call.calls[i].data[fields[f].name] =
                              decode_entity_change(
                                  fields[LastOccurrence(fields, fields[f].name)]).value

C10_Witness ==
    /\ pc = "processed"
    /\ call.result.kind = "Ok"
    /\ Len(Changes) = 1
    /\ Changes[1].fields = <<Field("name", Typed("String", <<"B">>)),
                             Field("name", Typed("Bytes", <<"Q", "Q", "=", "=">>))>>
    /\ \E i \in DeltaCalls :
          /\ call.calls[i].call = "set"
          /\ call.calls[i].data["name"] = Value("Bytes", <<65>>)

\* The names of the fields of a change that come with a newValue.
PresentNames(fields) == {fields[f].name : f \in {g \in 1..Len(fields) : fields[g].new_value.some}}

\* C11: the entity delta handed to the store for a Create or Update change, and
\* the one handed to the proof-of-indexing accumulator, has exactly the names of
\* the change's fields whose newValue is present (a field without newValue adds
\* nothing), and no field of a delta handed to either has the value Null.
C11_AbsentFieldsOmitted ==
    Called =>
        \A i \in 1..Len(call.calls) :
            /\ call.calls[i].call \in {"set", "SetEntity"} =>
                  DOMAIN call.calls[i].data
                      = PresentNames(Changes[call.calls[i].at].fields)
            /\ \A n \in DOMAIN call.calls[i].data : call.calls[i].data[n] # Null

C11_Witness ==
    /\ pc = "processed"
    /\ call.result.kind = "Ok"
    /\ Len(Changes) = 1
    /\ Changes[1].fields = <<Field("count", Typed("Int32", -5)), Field("name", None)>>
    /\ \E i \in DeltaCalls :
          /\ call.calls[i].call = "set"
          /\ DOMAIN call.calls[i].data = {"count"}

\* A type name with its first character upper-cased and the rest as it is.
FirstUpperOnly(entity) ==
    [i \in 1..Len(entity) |-> IF i = 1 THEN ToUppercase(entity[1]) ELSE entity[i]]

\* C12: every call a Create or Update change makes on the store or the
\* accumulator names the incoming type with only its first character upper-cased,
\* and every call a Delete change makes names the type exactly as received, both
\* with the id of the change.
C12_TypeCasingAsymmetry ==
    Called =>
        \A i \in 1..Len(call.calls) :
            LET c == call.calls[i]
            IN  /\ c.id = Changes[c.at].id
                /\ c.call \in {"set", "SetEntity"} =>
                      c.entity_type = FirstUpperOnly(Changes[c.at].entity)
                /\ c.call \in {"remove", "RemoveEntity"} =>
                      c.entity_type = Changes[c.at].entity

\* A Create of ("to", 1) followed by a Delete of ("to", 1): the entity ("To", 1)
\* is upserted and the entity ("to", 1) of the incoming state is removed.
C12_Witness ==
    /\ pc = "processed"
    /\ call.result.kind = "Ok"
    /\ Len(Changes) = 2
    /\ Changes[1].operation = "Create" /\ Changes[1].entity = Text_to
    /\ Changes[2].operation = "Delete" /\ Changes[2].entity = Text_to
    /\ Changes[1].id = "1" /\ Changes[2].id = "1"
    /\ EntityKey(Text_to, "1") \in DOMAIN call.inState.entity_cache
    /\ EntityKey(Text_to, "1") \notin DOMAIN call.cache
    /\ "name" \in DOMAIN call.cache[EntityKey(Text_To, "1")]

\* The same call with a fresh accumulator configured.
CallWithAccumulator ==
    process_trigger(event.block, call.inState, Some(<<>>), call.failAt)

\* The calls made on the store, failed upserts included.
StoreCallsOf(cs) == SelectSeq(cs, LAMBDA c : c.call \in StoreCalls)

\* C13: a call without an accumulator records nothing and makes the same calls
\* on the store in the same order, ends with the same result (Ok, or the same
\* error at the same position) and leaves the same entity cache as the same call
\* with an accumulator.
C13_AbsentAccumulatorNoOp ==
    (Called /\ ~call.poiIn.some) =>
        /\ call.poi = None
        /\ call.calls = StoreCallsOf(call.calls)
        /\ call.calls = StoreCallsOf(CallWithAccumulator.calls)
        /\ call.result = CallWithAccumulator.result
        /\ call.cache = CallWithAccumulator.cache
        /\ call.state = CallWithAccumulator.state

C13_Witness ==
    /\ pc = "processed"
    /\ ~call.poiIn.some
    /\ call.result.kind = "Err"
    /\ call.result.err = "StoreError"
    /\ call.result.at = 3
    /\ Changes[1].operation = "Delete"
    /\ Changes[2].operation = "Create"
    /\ Len(call.calls) = 3
    /\ Len(CallWithAccumulator.calls) = 6

\* The calls of extend so far that were given at least one data source.
Accepting == {i \in 1..Len(extended) : extended[i].call = "extend" /\ extended[i].first.some}

\* The first data source of the first such call.
FirstAccepted == extended[CHOOSE i \in Accepting : \A j \in Accepting : i <= j].first.v

\* C14: the filter is the default one until extend is first called with a
\* non-empty sequence, and from then on holds the modules, module name and start
\* block of that sequence's first data source whatever is called later: later
\* calls of extend, calls with an empty sequence and extend_with_template change
\* none of its four fields.
C14_ExtendFirstWriteWins ==
    filter = IF Accepting = {} THEN DefaultFilter
             ELSE [modules |-> FirstAccepted.modules,
                   module_name |-> FirstAccepted.module_name,
                   start_block |-> FirstAccepted.initial_block,
                   data_sources_len |-> 1]

\* An empty call, an accepted call, then a call with another
\* data source.
C14_Witness ==
    /\ Len(extended) = 3
    /\ extended[1].call = "extend" /\ ~extended[1].first.some
    /\ extended[2].call = "extend" /\ extended[2].first.some
    /\ extended[3].call = "extend" /\ extended[3].first.some
    /\ extended[3].first # extended[2].first
    /\ filter.module_name = extended[2].first.v.module_name
    /\ filter.module_name # extended[3].first.v.module_name
    /\ filter.start_block = Some(12)

\* The store variant that corresponds to a wire tag.
VariantOf(tag) ==
    CASE tag = "Int32" -> "Int"
      [] tag = "Bigint" -> "BigInt"
      [] tag = "Bigdecimal" -> "BigDecimal"
      [] tag = "String" -> "String"
      [] tag = "Bytes" -> "Bytes"
      [] OTHER -> "none"

\* A text that writes a decimal integer: an optional sign and one digit or more.
IsDecimalInteger(s) ==
    LET ds == IF Len(s) > 0 /\ s[1] \in {"+", "-"} THEN Tail(s) ELSE s
    IN  Len(ds) > 0 /\ \A i \in 1..Len(ds) : IsDigit(ds[i])

\* The requirement on the decoding of one field whose newValue is present.
DecodesToValueOrError(field) ==
    LET tag == field.new_value.v[1]
        wire == field.new_value.v[2]
        d == decode_entity_change(field)
    IN  /\ d.kind \in {"Ok", "Err"}
        /\ d.kind = "Ok" => d.value # Null /\ d.value[1] = VariantOf(tag)
        /\ tag = "Int32" => d = Decoded("Ok", Value("Int", wire))
        /\ tag = "String" => d = Decoded("Ok", Value("String", wire))
        /\ (tag = "Bytes" /\ d.kind = "Ok") => d.value[2] = Base64Decode(wire).v
        /\ tag \in {"Bool", "Array"} =>
              d.kind = "Err" /\ d.value = Value("Error", "unimplemented")
        /\ (tag \in {"Bigint", "Bigdecimal"} /\ wire = <<>>) => d.kind = "Err"
        /\ (tag = "Bigint" /\ ~IsDecimalInteger(wire)) => d.kind = "Err"
        /\ (tag = "Bytes" /\ Len(wire) % 4 # 0) => d.kind = "Err"

\* The fields of the changes of the block at hand whose newValue is present.
PresentFields ==
    UNION {{Changes[k].fields[f] :
                f \in {g \in 1..Len(Changes[k].fields) :
                          Changes[k].fields[g].new_value.some}} :
           k \in 1..Len(Changes)}

\* C15: for every field with a present newValue, decode_entity_change returns
\* either a non-Null store value of the variant of the wire tag (Int32 and String
\* with the same content, Bytes with the base64-decoded bytes) or an error; Bool
\* and Array give the "unimplemented" error, a malformed number or base64 text
\* an error.
C15_DecodeValueOrError ==
    event.kind = "ProcessBlock" => \A field \in PresentFields : DecodesToValueOrError(field)

NoEventMade == event.kind \in {"Panic", "Err"}

\* The outcome when check (e) does not pass: no event, and for a store-delta
\* output the UnexpectedStoreDeltaOutput error.
NotMapOutputOutcome ==
    /\ NoEventMade
    /\ payload.outputs[1].data = "StoreDeltas" =>
          event.kind = "Err" /\ event.err = "UnexpectedStoreDeltaOutput"

\* The outcomes of checks (a), (b) and (c), the clock not being read for (b), (c).
StepAndOutputsOutcome ==
    IF ~KnownStep THEN event.kind = "Panic" /\ event.steps = <<"step">>
    ELSE /\ "clock" \notin Range(event.steps)
         /\ IF Len(payload.outputs) = 0 THEN event.kind = "None"
            ELSE event.kind = "Err" /\ event.err = "MultipleModuleOutputError"

PassesStepAndOutputs == KnownStep /\ Len(payload.outputs) = 1

\* C16 as stated: the outcome is that of the first of the checks (a) known step,
\* (b) zero outputs, (c) several outputs, (d) clock present, (e) map output that
\* does not pass.
C16_FirstFailedOfFiveDecides ==
    Mapped =>
        IF ~PassesStepAndOutputs THEN StepAndOutputsOutcome
        ELSE IF ~payload.clock.some THEN NoEventMade
        ELSE IF payload.outputs[1].data # "MapOutput" THEN NotMapOutputOutcome
        ELSE TRUE

\* C16, amended: between (d) and (e) the clock's id is converted to a block hash,
\* and a payload whose clock id is not a hexadecimal hash fails there with the
\* conversion error, whatever its single output is; otherwise the outcome is that
\* of the first of the five checks that does not pass.
C16_FirstFailedWithHashDecides ==
    Mapped =>
        IF ~PassesStepAndOutputs THEN StepAndOutputsOutcome
        ELSE IF ~payload.clock.some THEN NoEventMade
        ELSE IF ~ValidHash(payload.clock.v.id)
        THEN event.kind = "Err" /\ event.err = "FromHexError"
        ELSE IF payload.outputs[1].data # "MapOutput" THEN NotMapOutputOutcome
        ELSE TRUE

C16_Witness ==
    /\ pc = "mapped"
    /\ payload.step = 4
    /\ payload.clock.some /\ ValidHash(payload.clock.v.id)
    /\ Len(payload.outputs) = 1
    /\ payload.outputs[1].data = "StoreDeltas"
    /\ event.err = "UnexpectedStoreDeltaOutput"
    /\ event.steps = <<"step", "outputs.len", "clock", "data">>

\* The proof-of-indexing event a logged call on the accumulator recorded.
EventOf(c) == PoiEvent(c.call, c.entity_type, c.id, c.data)

PoiCallsOf(cs) == SelectSeq(cs, LAMBDA c : c.call \in {"SetEntity", "RemoveEntity"})

\* Two calls are about the same change and the same entity.
SameEntity(c, d) == c.at = d.at /\ c.entity_type = d.entity_type /\ c.id = d.id

\* C17: with an accumulator, every store upsert of a Create or Update change,
\* failed ones included, comes right after the "set entity" event of that change,
\* which carries the same normalized type, id and field mapping as the upsert,
\* and every "set entity" event is followed by the upsert attempt; every store
\* removal of a Delete change is followed right away by the "remove entity"
\* event of that change, and no such event comes without the removal before it.
\* The accumulator ends with the events in the order of the calls.
C17_ProofBeforeSetRemoveBeforeProof ==
    (Called /\ call.poiIn.some) =>
        /\ \A i \in 1..Len(call.calls) :
              LET c == call.calls[i]
              IN  /\ c.call = "set" =>
                        /\ i > 1 /\ call.calls[i - 1].call = "SetEntity"
                        /\ SameEntity(call.calls[i - 1], c)
                        /\ call.calls[i - 1].data = c.data
                        /\ c.entity_type = FirstUpperOnly(Changes[c.at].entity)
                  /\ c.call = "SetEntity" =>
                        i < Len(call.calls) /\ call.calls[i + 1].call = "set"
                  /\ c.call = "remove" =>
                        /\ i < Len(call.calls) /\ call.calls[i + 1].call = "RemoveEntity"
                        /\ SameEntity(call.calls[i + 1], c)
                  /\ c.call = "RemoveEntity" =>
                        i > 1 /\ call.calls[i - 1].call = "remove"
        /\ call.poi.v =
              call.poiIn.v \o [i \in 1..Len(PoiCallsOf(call.calls)) |->
                                  EventOf(PoiCallsOf(call.calls)[i])]

C17_Witness ==
    /\ pc = "processed"
    /\ call.poiIn.some
    /\ call.failAt = 2
    /\ Len(call.calls) = 4
    /\ call.calls[1].call = "remove"
    /\ call.calls[2].call = "RemoveEntity"
    /\ call.calls[3].call = "SetEntity"
    /\ call.calls[4].call = "set" /\ ~call.calls[4].ok
    /\ Len(call.poi.v) = Len(call.poiIn.v) + 2

\* The fields of a change that are decoded and do not give a value.
BadFields(fields) ==
    {f \in 1..Len(fields) :
        fields[f].new_value.some /\ decode_entity_change(fields[f]).kind # "Ok"}

FirstBadField(fields) ==
    fields[CHOOSE f \in BadFields(fields) : \A g \in BadFields(fields) : f <= g]

\* The call got to decoding the fields of the Create or Update change at k, and
\* one of them does not decode.
DecodeFailsAt(k) ==
    /\ StopAt >= k
    /\ IsSet(Changes[k].operation)
    /\ Len(Changes[k].entity) > 0 /\ Changes[k].entity[1] \notin MultiByte
    /\ BadFields(Changes[k].fields) # {}

\* C18: when the call gets to a Create or Update change at position k of which a
\* field does not decode, it stops at k; if the decoder returned an error, the
\* call returns that error, of the first such field; and no proof-of-indexing
\* event and no store call is made for position k or any later one, whatever
\* fields of the change decoded before.
C18_DecodeFailureAppliesNothing ==
    Called =>
        \A k \in 1..Len(Changes) :
            DecodeFailsAt(k) =>
                LET d == decode_entity_change(FirstBadField(Changes[k].fields))
                IN  /\ call.result.kind = d.kind
                    /\ call.result.at = k
                    /\ d.kind = "Err" => call.result.err = d.value[2]
                    /\ \A i \in 1..Len(call.calls) : call.calls[i].at < k

C18_Witness ==
    /\ pc = "processed"
    /\ call.poiIn.some
    /\ Len(Changes) = 3
    /\ Changes[2].fields = <<Field("name", Typed("String", <<"A">>)),
                             Field("flag", Typed("Bool", <<>>))>>
    /\ call.result = [kind |-> "Err", err |-> "unimplemented", at |-> 2]
    /\ Len(call.calls) = 2
    /\ call.calls[2].at = 1

\* How many "set entity" events an accumulator holds.
SetEvents(poi) == Cardinality({i \in 1..Len(poi.v) : poi.v[i].event = "SetEntity"})

\* The "set entity" events the call recorded, and the upserts that succeeded.
RecordedSets == SetEvents(call.poi) - SetEvents(call.poiIn)

Upserts == Cardinality({i \in 1..Len(call.calls) :
                           call.calls[i].call = "set" /\ call.calls[i].ok})

FailedUpserts == {i \in 1..Len(call.calls) : call.calls[i].call = "set" /\ ~call.calls[i].ok}

\* C19: with an accumulator, a call whose store upsert for the change at k fails
\* returns the store error at k, makes no call after the failed upsert, and has
\* recorded the "set entity" event of change k as the accumulator's last event:
\* the call recorded one "set entity" event more than upserts succeeded. A call
\* that does not end in a store error recorded as many as succeeded.
C19_FailedUpsertLeavesProofEvent ==
    (Called /\ call.poiIn.some) =>
        /\ \A i \in FailedUpserts :
              /\ call.result = [kind |-> "Err", err |-> "StoreError", at |-> call.calls[i].at]
              /\ i = Len(call.calls)
              /\ call.poi.v[Len(call.poi.v)] =
                    PoiEvent("SetEntity", call.calls[i].entity_type, call.calls[i].id,
                             call.calls[i].data)
        /\ RecordedSets = Upserts + (IF call.result.err = "StoreError" THEN 1 ELSE 0)
        /\ call.result.err = "StoreError" => FailedUpserts # {}

C19_Witness ==
    /\ pc = "processed"
    /\ call.poiIn.some
    /\ Len(Changes) = 3
    /\ call.result = [kind |-> "Err", err |-> "StoreError", at |-> 2]
    /\ Changes[2].operation = "Update"
    /\ Upserts = 1
    /\ RecordedSets = 2

\* The block number an event carries.
NumberCarried ==
    IF event.kind = "ProcessBlock" THEN event.block.number ELSE event.ptr.number

\* C20: the block number of a ProcessBlock or Revert event is the clock's number
\* when that is at most 2^31 - 1, and in general the signed 32-bit number with
\* the clock number's low 32 bits (its two low 16-bit limbs); a payload that
\* passes the other checks gives its event whatever the clock's number is.
C20_BlockNumberTruncated ==
    /\ event.kind \in {"ProcessBlock", "Revert"} =>
          LET n == payload.clock.v.number
          IN  /\ NumberCarried % Limb = n[4]
              /\ (NumberCarried \div Limb) % Limb = n[3]
              /\ (NumberCarried \div Limb) \in (0 - Limb \div 2)..(Limb \div 2 - 1)
              /\ FitsBlockNumber(n) => NumberCarried = n[3] * Limb + n[4]
              /\ (NumberCarried < 0) = (n[3] >= Limb \div 2)
    /\ (/\ Mapped /\ payload.step \in {1, 2, 4} /\ OneMapOutput
        /\ payload.clock.some /\ ValidHash(payload.clock.v.id)) =>
          event.kind = IF payload.step = 2 THEN "Revert" ELSE "ProcessBlock"

C20_Witness ==
    /\ pc = "mapped"
    /\ event.kind = "ProcessBlock"
    /\ payload.clock.v.number = <<0, 0, 32768, 0>>
    /\ event.block.number = 0 - 2147483647 - 1

====
